---- MODULE Spec2Model ----
(***************************************************************************)
(* generic-arrayvec: GenericArray-backed ArrayVec / ArrayString.           *)
(*                                                                         *)
(* Type-level capacities are typenum unsigned integers, modelled as their  *)
(* binary representation: a sequence of bits, least significant bit first  *)
(* (UInt<U, B> is <<B>> \o U, UTerm is <<>>), without leading zeros.       *)
(* Values of type usize are kept in the same form, cut to the target's     *)
(* pointer width.                                                          *)
(***************************************************************************)
EXTENDS Integers, Sequences, FiniteSets, TLC

VARIABLES ptrWidth, N, vec, res

vars == <<ptrWidth, N, vec, res>>

---------------------------------------------------------------------------
(* Bounds of the model *)

\* largest capacity for which values (buffers, vectors, strings) are built
MaxCap == 3
\* elements are 0..MaxElem
MaxElem == 1
\* longest iterator handed to extend
MaxExtend == 2
\* longest str / byte string handed to the string constructors
MaxStrLen == 3
\* capacities 2^k - 1 - d and 2^k + d, d \in 0..Delta, are explored around each 2^k
Delta == 1

---------------------------------------------------------------------------
(* typenum unsigned integers *)

RECURSIVE NatToBits(_)
NatToBits(n) == IF n = 0 THEN <<>> ELSE <<n % 2>> \o NatToBits(n \div 2)

RECURSIVE BitsToNat(_)
BitsToNat(b) == IF b = <<>> THEN 0 ELSE Head(b) + 2 * BitsToNat(Tail(b))

Zeros(k) == [i \in 1..k |-> 0]

\* 2^k + d, for d < 2^k
Pow2Plus(k, d) ==
    LET db == NatToBits(d) IN db \o Zeros(k - Len(db)) \o <<1>>

\* 2^k - 1 - d, for d < 2^(k-1)
Pow2Minus(k, d) ==
    LET db == NatToBits(d) IN [i \in 1..k |-> IF i <= Len(db) THEN 1 - db[i] ELSE 1]

U0 == <<>>
U1 == <<1>>
U2 == <<0, 1>>
U256 == Pow2Plus(8, 0)
U65536 == Pow2Plus(16, 0)
U4294967296 == Pow2Plus(32, 0)

\* typenum's Cmp on unsigned integers: the higher bits decide, then the lowest bit
RECURSIVE Cmp(_, _)
Cmp(a, b) ==
    IF a = <<>> /\ b = <<>> THEN "Equal"
    ELSE IF a = <<>> THEN "Less"
    ELSE IF b = <<>> THEN "Greater"
    ELSE LET hi == Cmp(Tail(a), Tail(b)) IN
         IF hi # "Equal" THEN hi
         ELSE IF Head(a) < Head(b) THEN "Less"
         ELSE IF Head(a) > Head(b) THEN "Greater"
         ELSE "Equal"

\* IsLess with the comparison made non-strict
IsLess_nonstrict(a, b) == Cmp(a, b) # "Greater"

\* <A as IsLess<B>>::Output, True or False
IsLess(a, b) == Cmp(a, b) = "Less"

RECURSIVE Normalize(_)
Normalize(b) ==
    IF b = <<>> THEN <<>>
    ELSE IF b[Len(b)] = 1 THEN b
    ELSE Normalize(SubSeq(b, 1, Len(b) - 1))

\* N::to_usize(): B | (U::to_usize() << 1) in usize arithmetic keeps the low w bits
to_usize(n, w) == Normalize(SubSeq(n, 1, IF Len(n) < w THEN Len(n) ELSE w))

\* N::USIZE, the associated constant with the same value
USIZE(n, w) == to_usize(n, w)

\* target_pointer_width of the build: usize has at least 32 bits
PointerWidths == {32, 64}

\* the exponents k of the powers of two around which capacities are explored;
\* among them the breakpoints of the selector (8, 16, 32) and the pointer widths
Exponents == 3..65

Capacities ==
    {NatToBits(n) : n \in 0..MaxCap}
    \cup {Pow2Minus(k, d) : k \in Exponents, d \in 0..Delta}
    \cup {Pow2Plus(k, d) : k \in Exponents, d \in 0..Delta}

---------------------------------------------------------------------------
(* plumbing.rs: the index selector *)

IndexTypes == {"unit", "bool", "u8", "u16", "u32", "usize"}

\* IsTrue implemented for False as well
IsTrue_any(b) == b \in BOOLEAN

\* impl IsTrue for True
IsTrue(b) == b = TRUE

\* the impls of PickIndex with the Outputs of the u8 and u16 rows exchanged
PickIndexImpls_swapped ==
    { [pattern |-> <<TRUE, TRUE, TRUE, TRUE, TRUE>>, Output |-> "unit"],
      [pattern |-> <<FALSE, TRUE, TRUE, TRUE, TRUE>>, Output |-> "bool"],
      [pattern |-> <<FALSE, FALSE, TRUE, TRUE, TRUE>>, Output |-> "u16"],
      [pattern |-> <<FALSE, FALSE, FALSE, TRUE, TRUE>>, Output |-> "u8"],
      [pattern |-> <<FALSE, FALSE, FALSE, FALSE, TRUE>>, Output |-> "u32"],
      [pattern |-> <<FALSE, FALSE, FALSE, FALSE, FALSE>>, Output |-> "usize"] }

\* the six impls of PickIndex: the tuple each is written for and its Output
PickIndexImpls ==
    { [pattern |-> <<TRUE, TRUE, TRUE, TRUE, TRUE>>, Output |-> "unit"],
      [pattern |-> <<FALSE, TRUE, TRUE, TRUE, TRUE>>, Output |-> "bool"],
      [pattern |-> <<FALSE, FALSE, TRUE, TRUE, TRUE>>, Output |-> "u8"],
      [pattern |-> <<FALSE, FALSE, FALSE, TRUE, TRUE>>, Output |-> "u16"],
      [pattern |-> <<FALSE, FALSE, FALSE, FALSE, TRUE>>, Output |-> "u32"],
      [pattern |-> <<FALSE, FALSE, FALSE, FALSE, FALSE>>, Output |-> "usize"] }

PickIndexBreakpoints(n) ==
    << IsLess(n, U1), IsLess(n, U2), IsLess(n, U256), IsLess(n, U65536),
       IsLess(n, U4294967296) >>

\* the impls of PickIndex that apply to a tuple of breakpoints
PickIndex(bp) == {i \in PickIndexImpls : i.pattern = bp}

\* impl<N> PickIndexBreakpointsForCapacity for N: exists when PickIndexBreakpoints<N>: PickIndex
PickIndexBreakpointsForCapacity(n) == PickIndex(PickIndexBreakpoints(n))

\* IndexForCapacity<N>: the Output of the impl found, a compile error when
\* there is none or more than one
IndexForCapacity(n) ==
    LET found == PickIndexBreakpointsForCapacity(n) IN
    IF Cardinality(found) = 1 THEN (CHOOSE i \in found : TRUE).Output ELSE "error"

---------------------------------------------------------------------------
(* plumbing.rs: ArrayvecStorageRaw *)

\* ArrayvecStorageRaw(arr, PhantomData<I>)
ArrayvecStorageRaw_from(arr, I) == [arr |-> arr, marker |-> I]

ArrayvecStorageRaw_new(arr, I) == ArrayvecStorageRaw_from(arr, I)

ArrayvecStorageRaw_into_inner(self) == self.arr

\* impl From<ArrayvecStorageRaw<T, N, I>> for GenericArray<T, N>
GenericArray_from_raw(wrapper) == wrapper.arr

\* the impls of arrayvec's Array that apply to ArrayvecStorageRaw<T, N, I> on a
\* target of pointer width w, each with the Index and the CAPACITY it declares
ArrayImpls(n, I, w) ==
    (IF I = "unit" /\ n = U0
        THEN {[Index |-> "unit", CAPACITY |-> NatToBits(0)]} ELSE {})
    \cup (IF I = "bool" /\ n = U1
        THEN {[Index |-> "bool", CAPACITY |-> NatToBits(1)]} ELSE {})
    \cup (IF I = "u8" /\ IsTrue(IsLess(n, U256))
        THEN {[Index |-> "u8", CAPACITY |-> USIZE(n, w)]} ELSE {})
    \cup (IF I = "u16" /\ IsTrue(IsLess(n, U65536))
        THEN {[Index |-> "u16", CAPACITY |-> USIZE(n, w)]} ELSE {})
    \cup (IF I = "u32" /\ IsTrue(IsLess(n, U4294967296))
        THEN {[Index |-> "u32", CAPACITY |-> USIZE(n, w)]} ELSE {})
    \cup (IF I = "usize"
        THEN {[Index |-> "usize", CAPACITY |-> USIZE(n, w)]} ELSE {})

---------------------------------------------------------------------------
(* lib.rs: Wrapper *)

\* Wrapper(arr)
Wrapper_from(arr) == [inner |-> arr]

\* into_inner handing the elements back in reverse order
Wrapper_into_inner_reversed(self) ==
    [i \in 1..Len(self.inner) |-> self.inner[Len(self.inner) + 1 - i]]

Wrapper_into_inner(self) == self.inner

\* impl Into<GenericArray<T, N>> for Wrapper<T, N>
Wrapper_into(self) == self.inner

\* impl Array for Wrapper: type Index
Wrapper_Index == "usize"

\* capacity() losing the lowest bit of N
Wrapper_capacity_halved(n, w) == to_usize(IF n = <<>> THEN n ELSE Tail(n), w)

\* impl Array for Wrapper: fn capacity()
Wrapper_capacity(n, w) == to_usize(n, w)

---------------------------------------------------------------------------
(* Values: Option, Result, buffers *)

None == [some |-> FALSE]
Some(v) == [some |-> TRUE, val |-> v]
Ok(v) == [ok |-> TRUE, val |-> v]
Err(e) == [ok |-> FALSE, err |-> e]

Elems == 0..MaxElem

\* a slot of the buffer that holds no element
Uninit == -1

\* values of the container types are built for capacities up to MaxCap
Instantiable(n) == Len(n) <= Len(NatToBits(MaxCap)) /\ BitsToNat(n) <= MaxCap

\* the GenericArray<T, N> values
Buffers(n) == [1..BitsToNat(n) -> Elems]

---------------------------------------------------------------------------
(* arrayvec's ArrayVec over Wrapper<T, N>: the buffer xs and the length len *)

ArrayVec_capacity(n, w) == BitsToNat(Wrapper_capacity(n, w))

ArrayVec_len(self) == self.len

\* Deref: the first len elements of the buffer
ArrayVec_as_slice(self) == SubSeq(self.xs.inner, 1, self.len)

ArrayVec_new(n, w) ==
    [xs |-> Wrapper_from([i \in 1..ArrayVec_capacity(n, w) |-> Uninit]), len |-> 0]

\* impl From<A> for ArrayVec<A>
ArrayVec_from(array, n, w) == [xs |-> array, len |-> ArrayVec_capacity(n, w)]

ArrayVec_is_full(self, n, w) == ArrayVec_len(self) = ArrayVec_capacity(n, w)

\* the vector after push_unchecked(e)
ArrayVec_push_unchecked(self, e) ==
    [xs |-> Wrapper_from([self.xs.inner EXCEPT ![self.len + 1] = e]),
     len |-> self.len + 1]

\* extend takes from the iterator while there is room
RECURSIVE ArrayVec_extend(_, _, _, _)
ArrayVec_extend(self, es, n, w) ==
    IF es = <<>> \/ ArrayVec_is_full(self, n, w) THEN self
    ELSE ArrayVec_extend(ArrayVec_push_unchecked(self, Head(es)), Tail(es), n, w)

\* the vector after a pop that found an element: the slot is moved out of
ArrayVec_pop(self) ==
    [xs |-> Wrapper_from([self.xs.inner EXCEPT ![self.len] = Uninit]),
     len |-> self.len - 1]

ArrayVec_into_inner(self, n, w) ==
    IF ArrayVec_len(self) < ArrayVec_capacity(n, w) THEN Err(self) ELSE Ok(self.xs)

---------------------------------------------------------------------------
(* lib.rs: GenericArrayVecExt *)

\* generic_from leaving the length at zero
generic_from_empty(arr, n, w) == [xs |-> Wrapper_from(arr), len |-> 0]

generic_from(arr, n, w) == ArrayVec_from(Wrapper_from(arr), n, w)

\* into_generic_array without the check that the vector is full
into_generic_array_unchecked(self, n, w) == Ok(Wrapper_into_inner(self.xs))

\* Ok(self.into_inner()?.into_inner())
into_generic_array(self, n, w) ==
    LET r == ArrayVec_into_inner(self, n, w) IN
    IF r.ok THEN Ok(Wrapper_into_inner(r.val)) ELSE Err(r.err)

---------------------------------------------------------------------------
(* str, core::str::from_utf8 and arrayvec's ArrayString over Wrapper<u8, N> *)

\* the bytes strings are built from: 'h', the two bytes of U+00E9, and 0xFF
Bytes == {104, 195, 169, 255}

ByteStrings == UNION {[1..k -> Bytes] : k \in 0..MaxStrLen}

utf8_char_width(first) ==
    IF first < 128 THEN 1
    ELSE IF first >= 194 /\ first <= 223 THEN 2
    ELSE IF first >= 224 /\ first <= 239 THEN 3
    ELSE IF first >= 240 /\ first <= 244 THEN 4
    ELSE 0

utf8_is_cont(b) == b >= 128 /\ b <= 191

\* the second byte a three- or four-byte sequence starting with first allows
utf8_second_ok(first, second) ==
    CASE first = 224 -> second >= 160 /\ second <= 191
      [] first = 237 -> second >= 128 /\ second <= 159
      [] first = 240 -> second >= 144 /\ second <= 191
      [] first = 244 -> second >= 128 /\ second <= 143
      [] OTHER -> utf8_is_cont(second)

RECURSIVE run_utf8_validation(_)
run_utf8_validation(v) ==
    IF v = <<>> THEN TRUE
    ELSE LET w == utf8_char_width(v[1]) IN
         /\ w > 0
         /\ Len(v) >= w
         /\ w >= 2 => (IF w = 2 THEN utf8_is_cont(v[2]) ELSE utf8_second_ok(v[1], v[2]))
         /\ w >= 3 => utf8_is_cont(v[3])
         /\ w >= 4 => utf8_is_cont(v[4])
         /\ run_utf8_validation(SubSeq(v, w + 1, Len(v)))

from_utf8(v) == IF run_utf8_validation(v) THEN Ok(v) ELSE Err("Utf8Error")

\* the values of type &str: valid UTF-8 by the type's invariant
Strs == {s \in ByteStrings : run_utf8_validation(s)}

ArrayString_capacity(n, w) == BitsToNat(Wrapper_capacity(n, w))

ArrayString_len(self) == self.len

\* Deref: the first len bytes of the buffer
ArrayString_as_str(self) == SubSeq(self.xs.inner, 1, self.len)

ArrayString_new(n, w) ==
    [xs |-> Wrapper_from([i \in 1..ArrayString_capacity(n, w) |-> Uninit]), len |-> 0]

ArrayString_try_push_str(self, s, n, w) ==
    IF Len(s) > ArrayString_capacity(n, w) - ArrayString_len(self)
    THEN Err([CapacityError |-> s])
    ELSE Ok([xs |-> Wrapper_from([i \in 1..Len(self.xs.inner) |->
                        IF i > self.len /\ i <= self.len + Len(s)
                        THEN s[i - self.len] ELSE self.xs.inner[i]]),
             len |-> self.len + Len(s)])

\* ArrayString::from(s)
ArrayString_from(s, n, w) == ArrayString_try_push_str(ArrayString_new(n, w), s, n, w)

\* ArrayString::from_byte_string(b), b a Wrapper<u8, N>
ArrayString_from_byte_string(b, n, w) ==
    LET s == from_utf8(SubSeq(b.inner, 1, ArrayString_capacity(n, w)))
        arraystr == ArrayString_new(n, w)
    IN  IF ~s.ok THEN s
        ELSE LET result == ArrayString_try_push_str(arraystr, s.val, n, w) IN
             Ok(IF result.ok THEN result.val ELSE arraystr)

\* GenericArray::clone_from_slice panics unless the slice has exactly N elements
GenericArray_clone_from_slice(slice, n, w) ==
    IF Len(slice) = BitsToNat(to_usize(n, w))
    THEN [panic |-> FALSE, val |-> slice]
    ELSE [panic |-> TRUE]

---------------------------------------------------------------------------
(* lib.rs: GenericArrayStringExt *)

\* generic_from cutting a string that does not fit down to the capacity
string_generic_from_truncating(string, n, w) ==
    ArrayString_from(SubSeq(string, 1,
        IF Len(string) < ArrayString_capacity(n, w) THEN Len(string)
        ELSE ArrayString_capacity(n, w)), n, w)

string_generic_from(string, n, w) == ArrayString_from(string, n, w)

\* generic_from_byte_string without the UTF-8 validation
generic_from_byte_string_unvalidated(byte_string, n, w) ==
    LET arr == GenericArray_clone_from_slice(byte_string, n, w) IN
    IF arr.panic THEN arr
    ELSE [panic |-> FALSE,
          val |-> ArrayString_try_push_str(ArrayString_new(n, w), arr.val, n, w)]

generic_from_byte_string(byte_string, n, w) ==
    LET arr == GenericArray_clone_from_slice(byte_string, n, w) IN
    IF arr.panic THEN arr
    ELSE [panic |-> FALSE,
          val |-> ArrayString_from_byte_string(Wrapper_from(arr.val), n, w)]

---------------------------------------------------------------------------

Init ==
    /\ ptrWidth \in PointerWidths
    /\ N \in Capacities
    /\ vec = None
    /\ res = [op |-> "none"]

\* the type IndexForCapacity<N> is resolved
SelectIndex ==
    /\ res' = [op |-> "IndexForCapacity",
               breakpoints |-> PickIndexBreakpoints(N),
               matches |-> PickIndex(PickIndexBreakpoints(N)),
               ret |-> IndexForCapacity(N)]
    /\ UNCHANGED <<ptrWidth, N, vec>>

\* the bound ArrayvecStorageRaw<T, N, I>: Array is resolved
ResolveArray ==
    /\ \E I \in IndexTypes :
          res' = [op |-> "ArrayvecStorageRaw: Array", I |-> I,
                  impls |-> ArrayImpls(N, I, ptrWidth)]
    /\ UNCHANGED <<ptrWidth, N, vec>>

\* <Wrapper<T, N> as Array>::Index is resolved
ResolveWrapperIndex ==
    /\ res' = [op |-> "Wrapper: Array", Index |-> Wrapper_Index]
    /\ UNCHANGED <<ptrWidth, N, vec>>

\* capacity(), on the type or through a vector
Capacity ==
    /\ res' = [op |-> "capacity", self |-> vec, ret |-> Wrapper_capacity(N, ptrWidth)]
    /\ UNCHANGED <<ptrWidth, N, vec>>

WrapperFrom ==
    /\ Instantiable(N)
    /\ \E b \in Buffers(N) :
          res' = [op |-> "Wrapper::from", arg |-> b, ret |-> Wrapper_from(b)]
    /\ UNCHANGED <<ptrWidth, N, vec>>

WrapperIntoInner ==
    /\ res.op = "Wrapper::from"
    /\ res' = [op |-> "Wrapper::into_inner", origin |-> res.arg, self |-> res.ret,
               ret |-> Wrapper_into_inner(res.ret)]
    /\ UNCHANGED <<ptrWidth, N, vec>>

WrapperInto ==
    /\ res.op = "Wrapper::from"
    /\ res' = [op |-> "Wrapper::into", origin |-> res.arg, self |-> res.ret,
               ret |-> Wrapper_into(res.ret)]
    /\ UNCHANGED <<ptrWidth, N, vec>>

RawNew ==
    /\ Instantiable(N)
    /\ \E b \in Buffers(N), I \in IndexTypes :
          res' = [op |-> "ArrayvecStorageRaw::new", arg |-> b,
                  ret |-> ArrayvecStorageRaw_new(b, I)]
    /\ UNCHANGED <<ptrWidth, N, vec>>

RawFrom ==
    /\ Instantiable(N)
    /\ \E b \in Buffers(N), I \in IndexTypes :
          res' = [op |-> "ArrayvecStorageRaw::from", arg |-> b,
                  ret |-> ArrayvecStorageRaw_from(b, I)]
    /\ UNCHANGED <<ptrWidth, N, vec>>

RawIntoInner ==
    /\ res.op \in {"ArrayvecStorageRaw::new", "ArrayvecStorageRaw::from"}
    /\ res' = [op |-> "ArrayvecStorageRaw::into_inner", origin |-> res.arg,
               self |-> res.ret, ret |-> ArrayvecStorageRaw_into_inner(res.ret)]
    /\ UNCHANGED <<ptrWidth, N, vec>>

RawIntoGenericArray ==
    /\ res.op \in {"ArrayvecStorageRaw::new", "ArrayvecStorageRaw::from"}
    /\ res' = [op |-> "GenericArray::from", origin |-> res.arg,
               self |-> res.ret, ret |-> GenericArray_from_raw(res.ret)]
    /\ UNCHANGED <<ptrWidth, N, vec>>

\* GenericArrayVec::<T, N>::new()
New ==
    /\ Instantiable(N)
    /\ vec' = Some(ArrayVec_new(N, ptrWidth))
    /\ res' = [op |-> "new"]
    /\ UNCHANGED <<ptrWidth, N>>

\* vec.push(e): try_push(e).unwrap()
Push ==
    /\ vec.some
    /\ \E e \in Elems :
          IF ArrayVec_len(vec.val) < ArrayVec_capacity(N, ptrWidth)
          THEN /\ vec' = Some(ArrayVec_push_unchecked(vec.val, e))
               /\ res' = [op |-> "push", arg |-> e, panic |-> FALSE]
          ELSE /\ vec' = vec
               /\ res' = [op |-> "push", arg |-> e, panic |-> TRUE]
    /\ UNCHANGED <<ptrWidth, N>>

\* vec.extend(es)
Extend ==
    /\ vec.some
    /\ \E k \in 1..MaxExtend : \E es \in [1..k -> Elems] :
          /\ vec' = Some(ArrayVec_extend(vec.val, es, N, ptrWidth))
          /\ res' = [op |-> "extend", arg |-> es]
    /\ UNCHANGED <<ptrWidth, N>>

\* vec.pop()
Pop ==
    /\ vec.some
    /\ IF ArrayVec_len(vec.val) = 0
       THEN /\ vec' = vec
            /\ res' = [op |-> "pop", ret |-> None]
       ELSE /\ vec' = Some(ArrayVec_pop(vec.val))
            /\ res' = [op |-> "pop", ret |-> Some(vec.val.xs.inner[vec.val.len])]
    /\ UNCHANGED <<ptrWidth, N>>

\* GenericArrayVec::generic_from(arr)
GenericFrom ==
    /\ Instantiable(N)
    /\ \E b \in Buffers(N) :
          /\ vec' = Some(generic_from(b, N, ptrWidth))
          /\ res' = [op |-> "generic_from", arg |-> b]
    /\ UNCHANGED <<ptrWidth, N>>

\* vec.into_generic_array(): the vector is moved into the call
IntoGenericArray ==
    /\ vec.some
    /\ res' = [op |-> "into_generic_array", self |-> vec.val,
               ret |-> into_generic_array(vec.val, N, ptrWidth)]
    /\ vec' = None
    /\ UNCHANGED <<ptrWidth, N>>

\* GenericArrayString::<N>::generic_from(s)
StringGenericFrom ==
    /\ Instantiable(N)
    /\ \E s \in Strs :
          res' = [op |-> "GenericArrayString::generic_from", arg |-> s,
                  ret |-> string_generic_from(s, N, ptrWidth)]
    /\ UNCHANGED <<ptrWidth, N, vec>>

\* GenericArrayString::<N>::generic_from_byte_string(&b)
StringGenericFromByteString ==
    /\ Instantiable(N)
    /\ \E b \in ByteStrings :
          res' = [op |-> "GenericArrayString::generic_from_byte_string", arg |-> b,
                  ret |-> generic_from_byte_string(b, N, ptrWidth)]
    /\ UNCHANGED <<ptrWidth, N, vec>>

\* resolution of the types and trait bounds
NextSelector ==
    \/ SelectIndex
    \/ ResolveArray
    \/ ResolveWrapperIndex

\* conversions between a buffer and its adapters
NextAdapter ==
    \/ WrapperFrom
    \/ WrapperIntoInner
    \/ WrapperInto
    \/ RawNew
    \/ RawFrom
    \/ RawIntoInner
    \/ RawIntoGenericArray

\* a GenericArrayVec and its operations
NextVec ==
    \/ Capacity
    \/ New
    \/ Push
    \/ Extend
    \/ Pop
    \/ GenericFrom
    \/ IntoGenericArray

\* the constructors of GenericArrayString
NextString ==
    \/ StringGenericFrom
    \/ StringGenericFromByteString

Next ==
    \/ NextSelector
    \/ NextAdapter
    \/ NextVec
    \/ NextString

Spec == Init /\ [][Next]_vars

\* The four groups of operations share no state but the slot res of the last
\* result; each is also explored alone.
SpecSelector == Init /\ [][NextSelector]_vars
SpecAdapter == Init /\ [][NextAdapter]_vars
SpecVec == Init /\ [][NextVec]_vars
SpecString == Init /\ [][NextString]_vars

---------------------------------------------------------------------------
(* Properties *)

\* 2^k - 1 and 2^k, written out bit by bit
AllOnes(k) == [i \in 1..k |-> 1]
PowerOfTwo(k) == [i \in 1..(k + 1) |-> IF i = k + 1 THEN 1 ELSE 0]

\* the table of the selector; a number is below 2^k exactly when it has at
\* most k bits
TableRow(n) ==
    IF Len(n) = 0 THEN "unit"
    ELSE IF Len(n) <= 1 THEN "bool"
    ELSE IF Len(n) <= 8 THEN "u8"
    ELSE IF Len(n) <= 16 THEN "u16"
    ELSE IF Len(n) <= 32 THEN "u32"
    ELSE "usize"

\* the number of bits of a representation: its maximum value is 2^bits - 1
BitsOf(r, w) ==
    CASE r = "unit" -> 0
      [] r = "bool" -> 1
      [] r = "u8" -> 8
      [] r = "u16" -> 16
      [] r = "u32" -> 32
      [] r = "usize" -> w

\* the maximum value of representation r is >= n
Holds(r, n, w) == Len(n) <= BitsOf(r, w)

\* the order unit < bool < u8 < u16 < u32 < usize
Rank(r) ==
    CASE r = "unit" -> 1
      [] r = "bool" -> 2
      [] r = "u8" -> 3
      [] r = "u16" -> 4
      [] r = "u32" -> 5
      [] r = "usize" -> 6

\* n does not exceed the maximum of usize
FitsUsize(n, w) == Len(n) <= w

Selected == res.op = "IndexForCapacity"

\* C1: the selector returns the representation of the first matching row of
\* the table (unit for N < 1, bool for N < 2, u8 for N < 256, u16 for
\* N < 65536, u32 for N < 4294967296, usize otherwise), with strict
\* comparisons at 255, 256, 65535, 65536, 4294967295 and 4294967296, and
\* exactly one of the six PickIndex impls matches.
C1_SelectorFollowsTable ==
    Selected =>
        /\ res.ret = TableRow(N)
        /\ Cardinality(res.matches) = 1
        /\ N = AllOnes(8) => res.ret = "u8"
        /\ N = PowerOfTwo(8) => res.ret = "u16"
        /\ N = AllOnes(16) => res.ret = "u16"
        /\ N = PowerOfTwo(16) => res.ret = "u32"
        /\ N = AllOnes(32) => res.ret = "u32"
        /\ N = PowerOfTwo(32) => res.ret = "usize"

C1_Witness == Selected /\ N = PowerOfTwo(8) /\ res.ret = "u16"

\* the selected representation holds N and no earlier one does
NarrowestHolding ==
    /\ res.ret \in IndexTypes
    /\ Holds(res.ret, N, ptrWidth)
    /\ \A r \in IndexTypes : Rank(r) < Rank(res.ret) => ~Holds(r, N, ptrWidth)

\* C2 as stated: for every capacity N the selected representation is the
\* narrowest of the six whose maximum value is >= N.
C2_NarrowestForEveryN == Selected => NarrowestHolding

\* C2, amended: for every capacity N that does not exceed the maximum of
\* usize, the selected representation is the narrowest of the six whose
\* maximum value is >= N.
C2_NarrowestWithinUsize ==
    (Selected /\ FitsUsize(N, ptrWidth)) => NarrowestHolding

C2_Witness ==
    Selected /\ res.ret = "usize" /\ ptrWidth = 64 /\ N = PowerOfTwo(32)

\* C3: the Index that the adapter of GenericArrayVec and GenericArrayString
\* declares is the representation the selector returns for N.
C3_AdapterDeclaresSelectedIndex ==
    res.op = "Wrapper: Array" => res.Index = IndexForCapacity(N)

\* C4: a buffer converted into an adapter and back comes back with the same
\* elements in the same order, and neither conversion fails.
C4_RoundTrip ==
    /\ res.op = "Wrapper::from" => res.ret.inner = res.arg
    /\ res.op \in {"ArrayvecStorageRaw::new", "ArrayvecStorageRaw::from"}
          => res.ret.arr = res.arg
    /\ res.op \in {"Wrapper::into_inner", "Wrapper::into",
                   "ArrayvecStorageRaw::into_inner", "GenericArray::from"}
          => res.ret = res.origin

C4_Witness ==
    /\ res.op = "Wrapper::into_inner"
    /\ res.origin = <<0, 1, 1>>
    /\ res.ret = <<0, 1, 1>>

\* C5: into_generic_array returns Ok with the N elements of the vector in
\* order exactly when the length equals the capacity N; otherwise it returns
\* Err carrying the vector, its length and contents unchanged.
C5_IntoGenericArray ==
    res.op = "into_generic_array" =>
        /\ res.ret.ok <=> res.self.len = BitsToNat(N)
        /\ res.ret.ok =>
              /\ Len(res.ret.val) = BitsToNat(N)
              /\ res.ret.val = SubSeq(res.self.xs.inner, 1, res.self.len)
        /\ ~res.ret.ok => res.ret.err = res.self

C5_Witness ==
    /\ res.op = "into_generic_array"
    /\ ~res.ret.ok
    /\ N = AllOnes(2)
    /\ res.ret.err.len = 2
    /\ SubSeq(res.ret.err.xs.inner, 1, 2) = <<0, 1>>

\* C6: generic_from returns a full vector: its length and its capacity equal
\* N and its elements are those of the source, in order.
C6_GenericFromIsFull ==
    res.op = "generic_from" =>
        /\ vec.some
        /\ ArrayVec_len(vec.val) = BitsToNat(N)
        /\ ArrayVec_capacity(N, ptrWidth) = BitsToNat(N)
        /\ Len(res.arg) = BitsToNat(N)
        /\ ArrayVec_as_slice(vec.val) = res.arg

C6_Witness ==
    res.op = "generic_from" /\ res.arg = <<0, 1, 1>> /\ vec.val.len = 3

\* C7 as stated: capacity() returns N, whatever the vector holds and whatever
\* operations came before.
C7_CapacityIsN == res.op = "capacity" => res.ret = N

\* C7, amended: for every N that does not exceed the maximum of usize,
\* capacity() returns N, whatever the vector holds and whatever operations
\* came before.
C7_CapacityIsNWithinUsize ==
    (res.op = "capacity" /\ FitsUsize(N, ptrWidth)) => res.ret = N

C7_Witness ==
    /\ res.op = "capacity"
    /\ N = AllOnes(2)
    /\ res.self.some
    /\ res.self.val.len = 2
    /\ res.ret = AllOnes(2)

StringBuilt == res.op = "GenericArrayString::generic_from"

\* C8: generic_from(s) fails exactly when s has more bytes than the capacity
\* N; otherwise the string holds s, its length is the byte length of s and
\* its capacity is N.
C8_StringGenericFrom ==
    StringBuilt =>
        /\ ~res.ret.ok <=> Len(res.arg) > BitsToNat(N)
        /\ res.ret.ok =>
              /\ ArrayString_as_str(res.ret.val) = res.arg
              /\ ArrayString_len(res.ret.val) = Len(res.arg)
              /\ Len(res.ret.val.xs.inner) = BitsToNat(N)
              /\ ArrayString_capacity(N, ptrWidth) = BitsToNat(N)

C8_Witness ==
    StringBuilt /\ res.ret.ok /\ res.arg = <<195, 169>> /\ N = AllOnes(2)

\* well-formed UTF-8 over the bytes of the model: no 0xFF, every 0xC3
\* followed by 0xA9 and every 0xA9 preceded by 0xC3
WellFormed(b) ==
    \A i \in 1..Len(b) :
        /\ b[i] # 255
        /\ b[i] = 195 => (i < Len(b) /\ b[i + 1] = 169)
        /\ b[i] = 169 => (i > 1 /\ b[i - 1] = 195)

ByteStringBuilt ==
    /\ res.op = "GenericArrayString::generic_from_byte_string"
    /\ Len(res.arg) = BitsToNat(N)

\* C9: generic_from_byte_string(b), b of N bytes, fails exactly when b is not
\* valid UTF-8; otherwise the string holds b, and its length and capacity
\* both equal the length of b.
C9_StringFromByteString ==
    ByteStringBuilt =>
        /\ ~res.ret.panic
        /\ ~res.ret.val.ok <=> ~WellFormed(res.arg)
        /\ res.ret.val.ok =>
              /\ ArrayString_as_str(res.ret.val.val) = res.arg
              /\ ArrayString_len(res.ret.val.val) = Len(res.arg)
              /\ ArrayString_capacity(N, ptrWidth) = Len(res.arg)

C9_Witness ==
    ByteStringBuilt /\ res.ret.val.ok /\ res.arg = <<104, 195, 169>>

ArrayResolved == res.op = "ArrayvecStorageRaw: Array"

\* the condition under which the impl for index type I is written
ImplCondition(I, n) ==
    CASE I = "unit" -> n = <<>>
      [] I = "bool" -> n = <<1>>
      [] I = "u8" -> Len(n) <= 8
      [] I = "u16" -> Len(n) <= 16
      [] I = "u32" -> Len(n) <= 32
      [] I = "usize" -> TRUE

\* every impl found declares CAPACITY = N and an Index that holds N, and is
\* found only under the condition it is written for
AcceptedPairsSound ==
    \A impl \in res.impls :
        /\ impl.Index = res.I
        /\ impl.CAPACITY = N
        /\ Holds(impl.Index, N, ptrWidth)
        /\ ImplCondition(res.I, N)

\* C10 as stated: for every pair (N, I) for which ArrayvecStorageRaw<T, N, I>
\* implements Array, CAPACITY equals N and the maximum of I is >= N.
C10_AcceptedPairs == ArrayResolved => AcceptedPairsSound

\* C10, amended: for every pair (N, I) with N not above the maximum of usize
\* for which ArrayvecStorageRaw<T, N, I> implements Array, CAPACITY equals N
\* and the maximum of I is >= N.
C10_AcceptedPairsWithinUsize ==
    (ArrayResolved /\ FitsUsize(N, ptrWidth)) => AcceptedPairsSound

C10_Witness ==
    /\ ArrayResolved
    /\ res.I = "u16"
    /\ N = AllOnes(16)
    /\ ptrWidth = 32
    /\ res.impls # {}

====
